---- MODULE Spec2Model ----
(***************************************************************************)
(* Feature-Engineering service (ADEPT-ML): the JSON decoder               *)
(* json_to_buildings, the transforms add_diff_cols_for_consumption_units, *)
(* min_max_normalization and mean_normalization, the JSONEncoder, and the *)
(* three POST handlers of main.py.                                        *)
(*                                                                        *)
(* Representation.                                                        *)
(*  - A JSON text is a tagged record: [t |-> "empty"] is the empty string,*)
(*    [t |-> "invalid"] a text json.loads rejects, [t |-> "array"] the    *)
(*    text [], [t |-> "number"] a number, [t |-> "null"] the text null,   *)
(*    [t |-> "object", ...] an object given as the sequence of its        *)
(*    key/value pairs in text order.                                      *)
(*  - A number is a decimal [m |-> mantissa, e |-> places]: m * 10^-e.    *)
(*    A missing cell (NaN, JSON null) is the record NaN.                  *)
(*  - A timestamp key is the sequence of its decimal digits; a Timestamp  *)
(*    is the number of milliseconds since the epoch.                      *)
(*  - A DataFrame is [columns, index, data]: the column names in order,   *)
(*    the row labels in order and data[c][r] the cell of column c, row r. *)
(*  - Arithmetic is exact (rationals); float rounding is not modelled.    *)
(***************************************************************************)
EXTENDS Integers, Sequences, FiniteSets, TLC

VARIABLES pc, endpoint, payload, decoded, buildings, raised, response, redecoded

vars == <<pc, endpoint, payload, decoded, buildings, raised, response, redecoded>>

\* ---------------------------------------------------------------- bounds
MaxRows == 3
MaxVal == 2
MaxSensors == 2

\* pandas' DataFrame.to_json(double_precision=10), the default main.py uses
DoublePrecision == 10

\* ------------------------------------------------------------- numbers
NaN == [nan |-> TRUE]

IsNaN(x) == "nan" \in DOMAIN x

Dec(m, e) == [m |-> m, e |-> e]

Int0(n) == Dec(n, 0)

RECURSIVE Pow10(_)
Pow10(k) == IF k = 0 THEN 1 ELSE 10 * Pow10(k - 1)

Abs(n) == IF n < 0 THEN -n ELSE n

Max2(a, b) == IF a >= b THEN a ELSE b

RECURSIVE Gcd(_, _)
Gcd(a, b) == IF b = 0 THEN Abs(a) ELSE Gcd(b, a % b)

\* the float a JSON number token denotes: trailing zero places dropped
RECURSIVE Canon(_)
Canon(x) ==
  IF x.e > 0 /\ x.m % 10 = 0 THEN Canon(Dec(x.m \div 10, x.e - 1)) ELSE x

\* the mantissa of decimal x written with e places (e >= x.e)
Scale(x, e) == IF x.m = 0 THEN 0 ELSE x.m * Pow10(e - x.e)

\* float subtraction a - b; NaN if either operand is NaN
Sub(a, b) ==
  IF IsNaN(a) \/ IsNaN(b) THEN NaN
  ELSE LET e == Max2(a.e, b.e) IN Canon(Dec(Scale(a, e) - Scale(b, e), e))

\* ------------------------------------------------------ sequence helpers
RECURSIVE IndexOf(_, _, _)
\* the first position >= i of s holding x, 0 if none
IndexOf(s, x, i) ==
  IF i > Len(s) THEN 0 ELSE IF s[i] = x THEN i ELSE IndexOf(s, x, i + 1)

Contains(s, x) == IndexOf(s, x, 1) # 0

Keys(items) == [i \in 1..Len(items) |-> items[i].k]

\* -------------------------------------------------------------- json.loads
\* a Python dict built from the pairs of a JSON object: a repeated key keeps
\* its first position and takes its last value
RECURSIVE PyDictFrom(_, _, _)
PyDictFrom(items, i, acc) ==
  IF i > Len(items) THEN acc
  ELSE LET at == IndexOf(Keys(acc), items[i].k, 1) IN
       PyDictFrom(items, i + 1,
                  IF at = 0 THEN Append(acc, items[i])
                  ELSE [acc EXCEPT ![at] = items[i]])

PyDict(items) == PyDictFrom(items, 1, <<>>)

Ok(v) == [exc |-> "none", val |-> v]

Raise(e) == [exc |-> e, val |-> <<>>]

\* json.loads(text)
json_loads(text) ==
  IF text.t \in {"empty", "invalid"} THEN Raise("JSONDecodeError")
  ELSE IF text.t = "object" THEN Ok([t |-> "dict", items |-> PyDict(text.items)])
  ELSE Ok([t |-> text.t])

\* ------------------------------------------------------------ timestamps
RECURSIVE DigitsToInt(_, _, _)
DigitsToInt(ds, i, acc) ==
  IF i > Len(ds) THEN acc ELSE DigitsToInt(ds, i + 1, 10 * acc + ds[i])

\* pd.to_datetime(key, unit='ms'): the key's digits read as milliseconds
to_datetime(ds) == DigitsToInt(ds, 1, 0)

RECURSIVE IntToDigits(_)
\* the epoch-millisecond key to_json writes for a Timestamp
IntToDigits(n) ==
  IF n < 10 THEN <<n>> ELSE Append(IntToDigits(n \div 10), n % 10)

\* ------------------------------------------------------------- DataFrame
\* the union of the columns' keys in order of first appearance
\* (pandas: union_indexes(indexes, sort=False) for a dict of dicts)
RECURSIVE AppendNew(_, _, _)
AppendNew(acc, ks, i) ==
  IF i > Len(ks) THEN acc
  ELSE AppendNew(IF Contains(acc, ks[i]) THEN acc ELSE Append(acc, ks[i]), ks, i + 1)

\* mutant: the union of the keys sorted by timestamp
RECURSIVE UnionIndex_sorted(_, _, _)
UnionIndex_sorted(cols, c, acc) ==
  IF c > Len(cols)
  THEN SortSeq(acc, LAMBDA a, b : to_datetime(a) < to_datetime(b))
  ELSE UnionIndex_sorted(cols, c + 1, AppendNew(acc, Keys(cols[c].v), 1))

RECURSIVE UnionIndex(_, _, _)
UnionIndex(cols, c, acc) ==
  IF c > Len(cols) THEN acc
  ELSE UnionIndex(cols, c + 1, AppendNew(acc, Keys(cols[c].v), 1))

\* the float of a JSON cell: null is NaN, a number token its canonical decimal
ParseCell(v) == IF IsNaN(v) THEN NaN ELSE Canon(v)

\* the cell of column col (a dict key -> value) at key k; NaN if absent
CellAt(col, k) ==
  LET at == IndexOf(Keys(col), k, 1) IN
  IF at = 0 THEN NaN ELSE ParseCell(col[at].v)

\* pd.DataFrame(df_json) for a dict of dicts df_json, given as its pairs; None
\* and the empty list give the empty table, the table of no pairs
DataFrame(df_json) ==
  LET cols == [c \in 1..Len(df_json) |->
                 [k |-> df_json[c].k, v |-> PyDict(df_json[c].v)]]
      idx == UnionIndex(cols, 1, <<>>)
  IN [columns |-> Keys(cols),
      index |-> idx,
      data |-> [c \in 1..Len(cols) |->
                  [r \in 1..Len(idx) |-> CellAt(cols[c].v, idx[r])]]]

Column(df, name) == df.data[IndexOf(df.columns, name, 1)]

HasColumn(df, name) == Contains(df.columns, name)

NRows(df) == Len(df.index)

\* ----------------------------------------------------- json_to_buildings
SensorFields == {"type", "desc", "unit"}

\* [Building.Sensor(s["type"], s["desc"], s["unit"]) for s in b["sensors"]]
SensorsOf(ss) ==
  IF \E i \in 1..Len(ss) : ~(SensorFields \subseteq DOMAIN ss[i])
  THEN Raise("KeyError")
  ELSE Ok([i \in 1..Len(ss) |->
             [type |-> ss[i].type, desc |-> ss[i].desc, unit |-> ss[i].unit]])

\* the body of the loop of json_to_buildings for one entry k, b
BuildingOf(k, b) ==
  IF "sensors" \notin DOMAIN b THEN Raise("KeyError")
  ELSE LET sensors == SensorsOf(b.sensors) IN
  IF sensors.exc # "none" THEN sensors
  ELSE IF "dataframe" \notin DOMAIN b THEN Raise("KeyError")
  ELSE LET df_json == json_loads(b.dataframe) IN
  IF df_json.exc # "none" THEN df_json
  ELSE IF df_json.val.t = "number" THEN Raise("ValueError")
  ELSE LET df == DataFrame(IF df_json.val.t = "dict" THEN df_json.val.items ELSE <<>>) IN
       Ok([name |-> k, sensors |-> sensors.val,
           dataframe |-> [df EXCEPT !.index =
                            [r \in 1..Len(df.index) |-> to_datetime(df.index[r])]]])

\* mutant: an entry that fails to decode is left out
RECURSIVE BuildingsFrom_skipping(_, _, _)
BuildingsFrom_skipping(items, i, acc) ==
  IF i > Len(items) THEN Ok(acc)
  ELSE LET b == BuildingOf(items[i].k, items[i].v) IN
       BuildingsFrom_skipping(items, i + 1,
                              IF b.exc # "none" THEN acc ELSE Append(acc, b.val))

RECURSIVE BuildingsFrom(_, _, _)
BuildingsFrom(items, i, acc) ==
  IF i > Len(items) THEN Ok(acc)
  ELSE LET b == BuildingOf(items[i].k, items[i].v) IN
       IF b.exc # "none" THEN b ELSE BuildingsFrom(items, i + 1, Append(acc, b.val))

\* json_to_buildings(data): the buildings in the dict's order
json_to_buildings(data) ==
  IF data.t # "dict" THEN Raise("AttributeError")
  ELSE BuildingsFrom(data.items, 1, <<>>)

\* ---------------------------------- add_diff_cols_for_consumption_units
ConsumptionUnits == {"kWh", "m³", "kvarh"}

\* [s for s in building.sensors if s.unit in ["kWh", "m³", "kvarh"]]
SelectSensors(sensors) == SelectSeq(sensors, LAMBDA s : s.unit \in ConsumptionUnits)

\* mutant: the previous row minus the row
DiffColumn_reversed(col) ==
  [r \in 1..Len(col) |-> IF r = 1 THEN NaN ELSE Sub(col[r - 1], col[r])]

\* Series.diff(periods=1): NaN in the first row, then row minus previous row
DiffColumn(col) ==
  [r \in 1..Len(col) |-> IF r = 1 THEN NaN ELSE Sub(col[r], col[r - 1])]

\* building.dataframe.diff(periods=1)
DataFrameDiff(df) ==
  [df EXCEPT !.data = [c \in 1..Len(df.columns) |-> DiffColumn(df.data[c])]]

\* df[name] = values: an existing column is overwritten in place, a new one
\* is added last
SetColumn(df, name, values) ==
  LET at == IndexOf(df.columns, name, 1) IN
  IF at # 0 THEN [df EXCEPT !.data[at] = values]
  ELSE [df EXCEPT !.columns = Append(@, name), !.data = Append(@, values)]

\* mutant: the derived sensor keeps the source's unit
DiffSensor_same_unit(s) ==
  [type |-> s.type \o " Diff", desc |-> s.desc, unit |-> s.unit]

\* Building.Sensor(s.type + " Diff", s.desc, s.unit + " / 15 min")
DiffSensor(s) ==
  [type |-> s.type \o " Diff", desc |-> s.desc, unit |-> s.unit \o " / 15 min"]

\* mutant: a selected sensor without a column is skipped
RECURSIVE DiffSensorsFrom_skipping(_, _, _, _)
DiffSensorsFrom_skipping(building, sensors, diff_values, i) ==
  IF i > Len(sensors) THEN Ok(building)
  ELSE IF ~HasColumn(diff_values, sensors[i].type)
       THEN DiffSensorsFrom_skipping(building, sensors, diff_values, i + 1)
  ELSE DiffSensorsFrom_skipping(
         [building EXCEPT
            !.dataframe = SetColumn(@, sensors[i].type \o " Diff",
                                    Column(diff_values, sensors[i].type)),
            !.sensors = Append(@, DiffSensor(sensors[i]))],
         sensors, diff_values, i + 1)

\* the inner loop, from the i-th selected sensor on: [exc, val], val the
\* building as the loop left it (it is mutated in place, also when it raises)
RECURSIVE DiffSensorsFrom(_, _, _, _)
DiffSensorsFrom(building, sensors, diff_values, i) ==
  IF i > Len(sensors) THEN Ok(building)
  ELSE IF ~HasColumn(diff_values, sensors[i].type)
       THEN [exc |-> "KeyError", val |-> building]
  ELSE DiffSensorsFrom(
         [building EXCEPT
            !.dataframe = SetColumn(@, sensors[i].type \o " Diff",
                                    Column(diff_values, sensors[i].type)),
            !.sensors = Append(@, DiffSensor(sensors[i]))],
         sensors, diff_values, i + 1)

\* the body of the outer loop for one building
DiffBuilding(building) ==
  DiffSensorsFrom(building, SelectSensors(building.sensors),
                  DataFrameDiff(building.dataframe), 1)

RECURSIVE DiffFrom(_, _)
DiffFrom(bs, i) ==
  IF i > Len(bs) THEN Ok(bs)
  ELSE LET b == DiffBuilding(bs[i]) IN
       IF b.exc # "none" THEN [exc |-> b.exc, val |-> [bs EXCEPT ![i] = b.val]]
       ELSE DiffFrom([bs EXCEPT ![i] = b.val], i + 1)

add_diff_cols_for_consumption_units(bs) == DiffFrom(bs, 1)

\* ----------------------------------------------------------- normalization
\* the positions of a column's non-missing cells
Present(col) == {r \in 1..Len(col) : ~IsNaN(col[r])}

\* the number of places that writes every cell of the column exactly
RECURSIVE PlacesFrom(_, _, _)
PlacesFrom(col, r, acc) ==
  IF r > Len(col) THEN acc
  ELSE PlacesFrom(col, r + 1, IF IsNaN(col[r]) THEN acc ELSE Max2(acc, col[r].e))

Places(col) == PlacesFrom(col, 1, 0)

\* the column's cell r as an integer count of 10^-Places(col)
Units(col, r) == Scale(col[r], Places(col))

\* Series.min() / Series.max(), NaN skipped, in units of 10^-Places(col)
ColMin(col) ==
  CHOOSE v \in {Units(col, r) : r \in Present(col)} :
    \A r \in Present(col) : v <= Units(col, r)

ColMax(col) ==
  CHOOSE v \in {Units(col, r) : r \in Present(col)} :
    \A r \in Present(col) : v >= Units(col, r)

RECURSIVE SumFrom(_, _)
\* the sum of f over 1..n
SumFrom(f, n) == IF n = 0 THEN 0 ELSE f[n] + SumFrom(f, n - 1)

\* the exact quotient n / d in lowest terms; 0 / 0 is NaN
Frac(n, d) ==
  IF d = 0 THEN NaN
  ELSE LET g == Gcd(n, d)
           sg == IF d < 0 THEN -1 ELSE 1
       IN [num |-> sg * (n \div g), den |-> sg * (d \div g)]

\* mutant: divided by the maximum, not by the range
MinMaxColumn_by_max(col) ==
  IF Present(col) = {} THEN [r \in 1..Len(col) |-> NaN]
  ELSE [r \in 1..Len(col) |->
          IF IsNaN(col[r]) THEN NaN
          ELSE Frac(Units(col, r) - ColMin(col), ColMax(col))]

\* (col - col.min()) / (col.max() - col.min())
MinMaxColumn(col) ==
  IF Present(col) = {} THEN [r \in 1..Len(col) |-> NaN]
  ELSE [r \in 1..Len(col) |->
          IF IsNaN(col[r]) THEN NaN
          ELSE Frac(Units(col, r) - ColMin(col), ColMax(col) - ColMin(col))]

\* mutant: the population standard deviation, ddof = 0
StdDenominator_population(n) == n

\* the denominator of Series.std(): ddof = 1
StdDenominator(n) == n - 1

\* (col - col.mean()) / col.std(). With n present cells of sum S (in units),
\* v - mean = (n v - S) / n and std^2 = Q / (n^2 (n - 1)), Q the sum of the
\* (n v_i - S)^2; the z-score is sign * sqrt(sq), sq = (n v - S)^2 (n - 1) / Q
MeanColumn(col) ==
  LET n == Cardinality(Present(col))
      S == SumFrom([r \in 1..Len(col) |-> IF IsNaN(col[r]) THEN 0 ELSE Units(col, r)],
                   Len(col))
      dev(r) == n * Units(col, r) - S
      Q == SumFrom([r \in 1..Len(col) |-> IF IsNaN(col[r]) THEN 0 ELSE dev(r) * dev(r)],
                   Len(col))
  IN IF n < 2 \/ Q = 0 THEN [r \in 1..Len(col) |-> NaN]
     ELSE [r \in 1..Len(col) |->
             IF IsNaN(col[r]) THEN NaN
             ELSE [sign |-> IF dev(r) < 0 THEN -1 ELSE IF dev(r) > 0 THEN 1 ELSE 0,
                   sq |-> Frac(dev(r) * dev(r) * StdDenominator(n), Q)]]

\* mutant: minimum and maximum taken over the column pooled with the first
\* building's column at the same place
min_max_normalization_pooled(bs) ==
  Ok([i \in 1..Len(bs) |->
        [bs[i] EXCEPT !.dataframe.data =
           [c \in 1..Len(bs[i].dataframe.columns) |->
              LET pool == IF c <= Len(bs[1].dataframe.columns)
                          THEN bs[1].dataframe.data[c] ELSE <<>>
              IN SubSeq(MinMaxColumn(@[c] \o pool), 1, Len(@[c]))]]])

\* min_max_normalization(data)
min_max_normalization(bs) ==
  Ok([i \in 1..Len(bs) |->
        [bs[i] EXCEPT !.dataframe.data =
           [c \in 1..Len(bs[i].dataframe.columns) |-> MinMaxColumn(@[c])]]])

\* mean_normalization(data)
mean_normalization(bs) ==
  Ok([i \in 1..Len(bs) |->
        [bs[i] EXCEPT !.dataframe.data =
           [c \in 1..Len(bs[i].dataframe.columns) |-> MeanColumn(@[c])]]])

\* ------------------------------------------------------------- JSONEncoder
\* mutant: the places beyond p are cut off
RoundTo_truncating(x, p) ==
  IF x.e <= p THEN x
  ELSE LET h == Abs(x.m) \div Pow10(x.e - p)
       IN Canon(Dec(IF x.m < 0 THEN -h ELSE h, p))

\* a float printed with p decimal places: unchanged if it has no more than p,
\* else rounded to the nearest multiple of 10^-p
RoundTo(x, p) ==
  IF x.e <= p THEN x
  ELSE LET q == Pow10(x.e - p)
           h == (2 * Abs(x.m) + q) \div (2 * q)
       IN Canon(Dec(IF x.m < 0 THEN -h ELSE h, p))

\* the JSON token to_json writes for a cell: null for NaN, a decimal of at
\* most DoublePrecision places for a decimal; for a quotient or a root, the
\* token is kept as the exact value it approximates to DoublePrecision places
EncodeCell(v) ==
  IF IsNaN(v) THEN NaN
  ELSE IF "m" \in DOMAIN v THEN RoundTo(v, DoublePrecision)
  ELSE [approx |-> v, places |-> DoublePrecision]

\* DataFrame.to_json(): column -> epoch-millisecond key -> value
to_json(df) ==
  [t |-> "object",
   items |-> [c \in 1..Len(df.columns) |->
                [k |-> df.columns[c],
                 v |-> [r \in 1..Len(df.index) |->
                          [k |-> IntToDigits(df.index[r]),
                           v |-> EncodeCell(df.data[c][r])]]]]]

\* JSONEncoder.default(o) for a Building: dataclasses.asdict, the DataFrame
\* through to_json
EncodeBuilding(b) ==
  [name |-> b.name, sensors |-> b.sensors, dataframe |-> to_json(b.dataframe)]

\* json.dumps(buildings, cls=JSONEncoder)
json_dumps(bs) ==
  [t |-> "object",
   items |-> [i \in 1..Len(bs) |-> [k |-> bs[i].name, v |-> EncodeBuilding(bs[i])]]]

\* ------------------------------------------------------------------ handlers
NoBody == [t |-> "none"]

HTTPException(status, detail) == [status |-> status, detail |-> detail, body |-> NoBody]

\* the transform the handler of route ep calls
Transform(ep, bs) ==
  IF ep = "/diff" THEN add_diff_cols_for_consumption_units(bs)
  ELSE IF ep = "/normalize/minmax" THEN min_max_normalization(bs)
  ELSE mean_normalization(bs)

\* the try block of create_diff, normalize_minmax and normalize_mean, which
\* differ in the transform only: what the request leaves behind,
\* [decoded, buildings, raised, response]
Handle(p, ep) ==
  IF p.t = "empty"
  THEN [decoded |-> <<>>, buildings |-> <<>>,
        raised |-> [exc |-> "HTTPException", at |-> "payload"],
        response |-> HTTPException(400, "Payload can not be empty")]
  ELSE LET data == json_loads(p) IN
  IF data.exc # "none"
  THEN [decoded |-> <<>>, buildings |-> <<>>,
        raised |-> [exc |-> data.exc, at |-> "loads"],
        response |-> HTTPException(500, "Internal Server Error")]
  ELSE LET bs == json_to_buildings(data.val) IN
  IF bs.exc # "none"
  THEN [decoded |-> <<>>, buildings |-> <<>>,
        raised |-> [exc |-> bs.exc, at |-> "decode"],
        response |-> HTTPException(500, "Internal Server Error")]
  ELSE LET out == Transform(ep, bs.val) IN
  IF out.exc # "none"
  THEN [decoded |-> bs.val, buildings |-> out.val,
        raised |-> [exc |-> out.exc, at |-> "transform"],
        response |-> HTTPException(500, "Internal Server Error")]
  ELSE [decoded |-> bs.val, buildings |-> out.val,
        raised |-> [exc |-> "none", at |-> "none"],
        response |-> [status |-> 200, detail |-> "", body |-> json_dumps(out.val)]]

\* ------------------------------------------------------- request payloads
\* the key of the i-th quarter hour
Key(i) == IntToDigits(900000 * i)

Perms(n) == {f \in [1..n -> 1..n] : \A i, j \in 1..n : f[i] = f[j] => i = j}

Identity(n) == [i \in 1..n |-> i]

\* a column's inner object: the j-th pair of the text is the reading
\* cells[order[j]] at key order[j]
ColumnText(name, order, cells) ==
  [k |-> name,
   v |-> [j \in 1..Len(order) |-> [k |-> Key(order[j]), v |-> cells[order[j]]]]]

TableText(cols) == [t |-> "object", items |-> cols]

Entry(sensors, dataframe) == [sensors |-> sensors, dataframe |-> dataframe]

Object(items) == [t |-> "object", items |-> items]

SensorJson(type, unit) == [type |-> type, desc |-> "P " \o type, unit |-> unit]

\* one building, one sensor A, one column A: every vector of readings
Readings == {Int0(v) : v \in 0..MaxVal} \cup {NaN}

ValuePayloads ==
  {Object(<<[k |-> "b1",
             v |-> Entry(<<SensorJson("A", u)>>,
                         TableText(<<ColumnText("A", Identity(n), cells)>>))]>>) :
     <<n, cells, u>> \in
       UNION {{<<n, cells, u>> : cells \in [1..n -> Readings], u \in {"kWh", "kW"}} :
                n \in 0..MaxRows}}

\* one building, one kWh sensor: every order of the keys in the text
OrderPayloads ==
  {Object(<<[k |-> "b1",
             v |-> Entry(<<SensorJson("A", "kWh")>>,
                         TableText(<<ColumnText("A", order,
                                                [i \in 1..n |-> Int0(i * i)])>>))]>>) :
     <<n, order>> \in UNION {{<<n, order>> : order \in Perms(n)} : n \in 0..MaxRows}}

\* one building: every sensor list over the pool and every set of columns
SensorTypes == <<"A", "A Diff", "B">>

SensorPool ==
  {SensorJson(SensorTypes[i], u) :
     i \in 1..Len(SensorTypes), u \in ConsumptionUnits \cup {"kW"}}

SensorLists == UNION {[1..n -> SensorPool] : n \in 0..MaxSensors}

StructCells(i) == <<Int0(i), Int0(i * i + 2)>>

ColumnSets ==
  {SelectSeq([i \in 1..Len(SensorTypes) |->
                ColumnText(SensorTypes[i], Identity(2), StructCells(i))],
             LAMBDA c : c.k \in names) :
     names \in SUBSET {SensorTypes[i] : i \in 1..Len(SensorTypes)}}

StructPayloads ==
  {Object(<<[k |-> "b1", v |-> Entry(ss, TableText(cols))]>>) :
     ss \in SensorLists, cols \in ColumnSets}

\* two entries, well-formed or not
Ragged == <<[k |-> Key(2), v |-> Int0(4)], [k |-> Key(1), v |-> Int0(1)],
            [k |-> Key(2), v |-> Int0(3)]>>

Entries ==
  {Entry(<<SensorJson("A", "kWh")>>,
         TableText(<<ColumnText("A", Identity(3), <<Int0(0), Int0(1), Int0(2)>>)>>)),
   Entry(<<SensorJson("A", "kWh"), SensorJson("B", "kW")>>,
         TableText(<<ColumnText("A", Identity(2), <<Int0(0), Int0(2)>>),
                     ColumnText("B", <<3, 2>>, <<NaN, Int0(1), Int0(5)>>)>>)),
   Entry(<<SensorJson("B", "m³")>>, TableText(<<[k |-> "B", v |-> Ragged]>>)),
   Entry(<<SensorJson("A", "kWh")>>,
         TableText(<<ColumnText("B", Identity(2), <<Int0(1), Int0(2)>>)>>)),
   Entry(<<SensorJson("A", "kWh")>>, [t |-> "invalid"]),
   Entry(<<SensorJson("A", "kW")>>, [t |-> "array"]),
   Entry(<<SensorJson("A", "kW")>>, [t |-> "number"]),
   Entry(<<[type |-> "A", desc |-> "P A"]>>,
         TableText(<<ColumnText("A", Identity(2), <<Int0(1), Int0(2)>>)>>)),
   [sensors |-> <<>>],
   [dataframe |-> TableText(<<>>)]}

PairPayloads ==
  {Object(<<[k |-> "b1", v |-> e1], [k |-> k2, v |-> e2]>>) :
     e1 \in Entries, e2 \in Entries, k2 \in {"b1", "b2"}}

TextPayloads ==
  {[t |-> "empty"], [t |-> "invalid"], [t |-> "array"], [t |-> "number"],
   [t |-> "null"], Object(<<>>)}

\* one building, one column of three readings
Example(unit, x, y, z) ==
  Object(<<[k |-> "b1",
            v |-> Entry(<<SensorJson("A", unit)>>,
                        TableText(<<ColumnText("A", Identity(3),
                                               <<Int0(x), Int0(y), Int0(z)>>)>>))]>>)

ExamplePayloads == {Example("kWh", 10, 12, 9), Example("kW", 0, 5, 10), Example("kW", 2, 4, 6)}

Payloads ==
  TextPayloads \cup ValuePayloads \cup OrderPayloads \cup StructPayloads
    \cup PairPayloads \cup ExamplePayloads

\* ---------------------------------------------------------------- service
\* a request is pending; nothing of an earlier request is kept
Init ==
  /\ pc = "request"
  /\ payload \in Payloads
  /\ endpoint = "none"
  /\ decoded = <<>>
  /\ buildings = <<>>
  /\ raised = [exc |-> "none", at |-> "none"]
  /\ response = [status |-> 0, detail |-> "", body |-> NoBody]
  /\ redecoded = <<>>

\* POST /diff
create_diff ==
  /\ pc = "request"
  /\ \E h \in {Handle(payload, "/diff")} :
       /\ decoded' = h.decoded
       /\ buildings' = h.buildings
       /\ raised' = h.raised
       /\ response' = h.response
  /\ endpoint' = "/diff"
  /\ pc' = "done"
  /\ UNCHANGED <<payload, redecoded>>

\* POST /normalize/minmax
normalize_minmax ==
  /\ pc = "request"
  /\ \E h \in {Handle(payload, "/normalize/minmax")} :
       /\ decoded' = h.decoded
       /\ buildings' = h.buildings
       /\ raised' = h.raised
       /\ response' = h.response
  /\ endpoint' = "/normalize/minmax"
  /\ pc' = "done"
  /\ UNCHANGED <<payload, redecoded>>

\* POST /normalize/mean
normalize_mean ==
  /\ pc = "request"
  /\ \E h \in {Handle(payload, "/normalize/mean")} :
       /\ decoded' = h.decoded
       /\ buildings' = h.buildings
       /\ raised' = h.raised
       /\ response' = h.response
  /\ endpoint' = "/normalize/mean"
  /\ pc' = "done"
  /\ UNCHANGED <<payload, redecoded>>

Next == create_diff \/ normalize_minmax \/ normalize_mean

Spec == Init /\ [][Next]_vars

\* ------------------------------------------------------------ round trip
\* json_to_buildings(json.loads(text))
Decoding(data) == IF data.exc # "none" THEN data ELSE json_to_buildings(data.val)

DecodeText(text) == Decoding(json_loads(text))

\* one building, one column: every vector of readings, some written with more
\* places than to_json keeps
CodecReadings ==
  {Int0(0), Dec(15, 1), Dec(150, 2), Dec(3, DoublePrecision), Dec(4, DoublePrecision + 1),
   Dec(16, DoublePrecision + 1), Dec(-16, DoublePrecision + 1), NaN}

CodecValuePayloads ==
  {Object(<<[k |-> "b1",
             v |-> Entry(<<SensorJson("A", "kWh")>>,
                         TableText(<<ColumnText("A", Identity(n), cells)>>))]>>) :
     <<n, cells>> \in
       UNION {{<<n, cells>> : cells \in [1..n -> CodecReadings]} : n \in 0..MaxRows}}

CodecPayloads == CodecValuePayloads \cup OrderPayloads \cup PairPayloads

InitCodec ==
  /\ pc = "text"
  /\ payload \in CodecPayloads
  /\ endpoint = "none"
  /\ decoded = <<>>
  /\ buildings = <<>>
  /\ raised = [exc |-> "none", at |-> "none"]
  /\ response = [status |-> 0, detail |-> "", body |-> NoBody]
  /\ redecoded = <<>>

\* decode(X)
Decode ==
  /\ pc = "text"
  /\ \E r \in {DecodeText(payload)} :
       /\ decoded' = r.val
       /\ raised' = [exc |-> r.exc, at |-> IF r.exc = "none" THEN "none" ELSE "decode"]
       /\ pc' = IF r.exc = "none" THEN "decoded" ELSE "failed"
  /\ UNCHANGED <<endpoint, payload, buildings, response, redecoded>>

\* encode(decode(X))
Encode ==
  /\ pc = "decoded"
  /\ response' = [response EXCEPT !.body = json_dumps(decoded)]
  /\ pc' = "encoded"
  /\ UNCHANGED <<endpoint, payload, decoded, buildings, raised, redecoded>>

\* decode(encode(decode(X)))
Redecode ==
  /\ pc = "encoded"
  /\ \E r \in {DecodeText(response.body)} :
       /\ redecoded' = r.val
       /\ raised' = [exc |-> r.exc, at |-> IF r.exc = "none" THEN "none" ELSE "decode"]
  /\ pc' = "redecoded"
  /\ UNCHANGED <<endpoint, payload, decoded, buildings, response>>

NextCodec == Decode \/ Encode \/ Redecode

SpecCodec == InitCodec /\ [][NextCodec]_vars

\* ------------------------------------------------------------------ claims
\* the request ran add_diff_cols_for_consumption_units to its end
DiffDone == pc = "done" /\ endpoint = "/diff" /\ raised.exc = "none"

\* the request reached add_diff_cols_for_consumption_units
DiffRan == pc = "done" /\ endpoint = "/diff" /\ raised.at \in {"none", "transform"}

Qualifies(s) == s.unit = "kWh" \/ s.unit = "m³" \/ s.unit = "kvarh"

\* the positions of the sensors of a list that measure a consumption unit
Qualifying(sensors) == {i \in 1..Len(sensors) : Qualifies(sensors[i])}

\* b - a = d on cells: missing if a or b is, else the exact difference
IsDifference(d, b, a) ==
  IF IsNaN(a) \/ IsNaN(b) THEN IsNaN(d)
  ELSE /\ ~IsNaN(d)
       /\ LET e == Max2(d.e, Max2(a.e, b.e)) IN Scale(d, e) = Scale(b, e) - Scale(a, e)

\* C1: after add_diff_cols_for_consumption_units, for every building and
\* every sensor of it with a consumption unit and column C, the table has a
\* column C + " Diff", missing in the first row and holding in row i the
\* reading of C in row i minus the reading in row i - 1 (the readings the call
\* was given); the readings 10, 12, 9 give missing, 2, -3.
C1_DiffValues ==
  DiffDone =>
    /\ \A b \in 1..Len(decoded) :
         \A i \in Qualifying(decoded[b].sensors) :
           LET C == decoded[b].sensors[i].type
               before == Column(decoded[b].dataframe, C)
               after == buildings[b].dataframe
           IN /\ HasColumn(after, C \o " Diff")
              /\ LET diff == Column(after, C \o " Diff") IN
                   /\ Len(diff) = Len(before)
                   /\ Len(diff) >= 1 => IsNaN(diff[1])
                   /\ \A r \in 2..Len(diff) :
                        IsDifference(diff[r], before[r], before[r - 1])
    /\ payload = Example("kWh", 10, 12, 9) =>
         Column(buildings[1].dataframe, "A Diff") = <<NaN, Int0(2), Int0(-3)>>

C1_Witness ==
  /\ DiffDone
  /\ payload = Example("kWh", 10, 12, 9)
  /\ Column(buildings[1].dataframe, "A Diff")[3] = Int0(-3)

\* the i-th smallest member of a set of positions
Nth(S, i) == CHOOSE x \in S : Cardinality({y \in S : y <= x}) = i

\* C2: after one call each building's sensor list is its list before the call
\* followed by one sensor {C + " Diff", the source's desc, the source's unit
\* + " / 15 min"} per sensor that had a consumption unit before the call, in
\* the order of those sensors; nothing is derived from a sensor the call
\* appended: every new column is C + " Diff" for such a source sensor.
C2_AppendedSensors ==
  DiffDone =>
    \A b \in 1..Len(decoded) :
      LET before == decoded[b].sensors
          after == buildings[b].sensors
          Q == Qualifying(before)
      IN /\ Len(after) = Len(before) + Cardinality(Q)
         /\ SubSeq(after, 1, Len(before)) = before
         /\ \A j \in 1..Cardinality(Q) :
              LET src == before[Nth(Q, j)] IN
              after[Len(before) + j] =
                [type |-> src.type \o " Diff", desc |-> src.desc,
                 unit |-> src.unit \o " / 15 min"]
         /\ \A c \in 1..Len(buildings[b].dataframe.columns) :
              LET name == buildings[b].dataframe.columns[c] IN
              \/ HasColumn(decoded[b].dataframe, name)
              \/ \E i \in Q : name = before[i].type \o " Diff"

C2_Witness ==
  /\ DiffDone
  /\ Len(decoded) = 1
  /\ Cardinality(Qualifying(decoded[1].sensors)) = 2
  /\ Len(buildings[1].sensors) = 4
  /\ decoded[1].sensors[1].unit # decoded[1].sensors[2].unit

\* C3 (as claimed): differencing adds no column and no sensor for a sensor
\* with another unit, leaves the values of every column the table had, the row
\* index and the building's name unchanged, and leaves a building without a
\* qualifying sensor untouched.
C3_NoOpOnOtherUnits ==
  DiffDone =>
    \A b \in 1..Len(decoded) :
      LET before == decoded[b]
          after == buildings[b]
      IN /\ Len(after.sensors) = Len(before.sensors) + Cardinality(Qualifying(before.sensors))
         /\ Len(after.dataframe.columns) <=
              Len(before.dataframe.columns) + Cardinality(Qualifying(before.sensors))
         /\ \A c \in 1..Len(before.dataframe.columns) :
              LET name == before.dataframe.columns[c] IN
              /\ HasColumn(after.dataframe, name)
              /\ Column(after.dataframe, name) = Column(before.dataframe, name)
         /\ after.dataframe.index = before.dataframe.index
         /\ after.name = before.name
         /\ Qualifying(before.sensors) = {} => after = before

\* a table and a sensor list that correspond one to one: the sensor types are
\* pairwise distinct and are exactly the column names
OneToOne(b) ==
  /\ \A i, j \in 1..Len(b.sensors) : b.sensors[i].type = b.sensors[j].type => i = j
  /\ {b.sensors[i].type : i \in 1..Len(b.sensors)} =
       {b.dataframe.columns[c] : c \in 1..Len(b.dataframe.columns)}

\* C4 (as claimed): a building whose columns and sensor types correspond one
\* to one before a transform has them in one-to-one correspondence after
\* add_diff_cols_for_consumption_units, min_max_normalization or
\* mean_normalization completes.
C4_ColumnsMatchSensors ==
  (pc = "done" /\ raised.exc = "none") =>
    \A b \in 1..Len(decoded) : OneToOne(decoded[b]) => OneToOne(buildings[b])

\* the entries json_to_buildings sees: of two pairs with the same name the
\* dict keeps the later
Live(p) ==
  {i \in 1..Len(p.items) : \A j \in (i + 1)..Len(p.items) : p.items[j].k # p.items[i].k}

\* an entry with a sensor list whose sensors have their three fields and with
\* a dataframe string that is a JSON object (or the empty list, or null)
WellFormedEntry(e) ==
  /\ "sensors" \in DOMAIN e
  /\ \A i \in 1..Len(e.sensors) : {"type", "desc", "unit"} \subseteq DOMAIN e.sensors[i]
  /\ "dataframe" \in DOMAIN e
  /\ e.dataframe.t \in {"object", "array", "null"}

WellFormed(p) ==
  /\ p.t = "object"
  /\ \A i \in Live(p) : WellFormedEntry(p.items[i].v)

\* every sensor with a consumption unit names a column of its entry's table
Diffable(p) ==
  \A i \in Live(p) :
    LET e == p.items[i].v IN
    \A j \in Qualifying(e.sensors) :
      /\ e.dataframe.t = "object"
      /\ \E c \in 1..Len(e.dataframe.items) : e.dataframe.items[c].k = e.sensors[j].type

\* C5: on each of the three endpoints an empty payload string gives 400; any
\* exception in decode, transform or encode gives 500 for the whole request and
\* no body (no result of another building); 200 with the encoded collection is
\* returned only when every building decodes and transforms without error.
C5_StatusCodes ==
  pc = "done" =>
    /\ response.status \in {200, 400, 500}
    /\ response.status = 400 <=> payload.t = "empty"
    /\ response.status = 200 <=>
         /\ WellFormed(payload)
         /\ endpoint = "/diff" => Diffable(payload)
    /\ raised.exc \notin {"none", "HTTPException"} => response.status = 500
    /\ response.status # 200 => response.body = NoBody
    /\ response.status = 200 =>
         /\ raised.exc = "none"
         /\ response.body.t = "object"
         /\ Len(response.body.items) = Cardinality(Live(payload))
         /\ \A i \in 1..Len(buildings) :
              /\ response.body.items[i].k = buildings[i].name
              /\ response.body.items[i].v.sensors = buildings[i].sensors

C5_Witness ==
  /\ pc = "done"
  /\ response.status = 500
  /\ response.body = NoBody
  /\ payload.t = "object"
  /\ Cardinality(Live(payload)) = 2
  /\ WellFormedEntry(payload.items[1].v)
  /\ ~WellFormedEntry(payload.items[2].v)

\* some sensor selected for differencing has no column of its type
MissingColumn ==
  \E b \in 1..Len(decoded) :
    \E i \in Qualifying(decoded[b].sensors) :
      ~HasColumn(decoded[b].dataframe, decoded[b].sensors[i].type)

\* C6 (as claimed): if a sensor selected for differencing has no column of its
\* type, add_diff_cols_for_consumption_units fails with a SchemaMismatchError.
C6_SchemaMismatchError ==
  (DiffRan /\ MissingColumn) => raised.exc = "SchemaMismatchError"

\* C6 (amended): in that case, and in no other, the call fails with the
\* KeyError of the column lookup, neither completing nor skipping the sensor;
\* the endpoint answers 500 without a body.
C6_KeyError ==
  DiffRan =>
    /\ MissingColumn <=> raised = [exc |-> "KeyError", at |-> "transform"]
    /\ MissingColumn => response.status = 500 /\ response.body = NoBody

C6_Witness ==
  /\ DiffRan
  /\ MissingColumn
  /\ raised.exc = "KeyError"
  /\ Len(decoded) = 2
  /\ Len(buildings[1].sensors) > Len(decoded[1].sensors)

MinMaxDone == pc = "done" /\ endpoint = "/normalize/minmax" /\ raised.exc = "none"

MeanDone == pc = "done" /\ endpoint = "/normalize/mean" /\ raised.exc = "none"

\* the readings of a column that are present, as integers (the request
\* payloads hold whole numbers)
Values(col) == {col[r].m : r \in {q \in 1..Len(col) : ~IsNaN(col[q])}}

\* C7: for every building and every column with at least two distinct values
\* min_max_normalization replaces each value v by (v - min) / (max - min), min
\* and max those of that building's column; every result lies in [0, 1], the
\* minimum maps to 0 and the maximum to 1; 0, 5, 10 becomes 0, 1/2, 1.
C7_MinMax ==
  MinMaxDone =>
    /\ \A b \in 1..Len(decoded) :
         \A c \in 1..Len(decoded[b].dataframe.columns) :
           LET col == decoded[b].dataframe.data[c]
               out == buildings[b].dataframe.data[c]
           IN Cardinality(Values(col)) >= 2 =>
                LET lo == CHOOSE v \in Values(col) : \A w \in Values(col) : v <= w
                    hi == CHOOSE v \in Values(col) : \A w \in Values(col) : v >= w
                IN \A r \in 1..Len(col) :
                     IF IsNaN(col[r]) THEN IsNaN(out[r])
                     ELSE /\ ~IsNaN(out[r])
                          /\ out[r].den > 0
                          /\ out[r].num * (hi - lo) = out[r].den * (col[r].m - lo)
                          /\ 0 <= out[r].num /\ out[r].num <= out[r].den
                          /\ col[r].m = lo => out[r].num = 0
                          /\ col[r].m = hi => out[r].num = out[r].den
    /\ payload = Example("kW", 0, 5, 10) =>
         buildings[1].dataframe.data[1] =
           <<[num |-> 0, den |-> 1], [num |-> 1, den |-> 2], [num |-> 1, den |-> 1]>>

C7_Witness ==
  /\ MinMaxDone
  /\ Len(decoded) = 2
  /\ \A b \in 1..2 : Len(decoded[b].dataframe.columns) >= 1
  /\ Values(decoded[1].dataframe.data[1]) = {0, 1, 2}
  /\ Values(decoded[2].dataframe.data[1]) = {0, 2}
  /\ buildings[1].dataframe.data[1][2] = [num |-> 1, den |-> 2]
  /\ buildings[2].dataframe.data[1][2] = [num |-> 1, den |-> 1]

RECURSIVE SumOver(_, _)
\* the sum of f over the set S
SumOver(f, S) ==
  IF S = {} THEN 0 ELSE LET x == CHOOSE y \in S : TRUE IN f[x] + SumOver(f, S \ {x})

\* C8: for every building and every column mean_normalization replaces each
\* value v by (v - mean) / stddev, stddev the sample standard deviation (n - 1
\* denominator) of that building's column: with n values of sum S the result
\* z has the sign of v - mean and z^2 * sum((n v_i - S)^2) = (n v - S)^2 * (n - 1);
\* where the deviation is undefined or zero the result is missing; 2, 4, 6
\* becomes -1, 0, 1.
C8_MeanStd ==
  MeanDone =>
    /\ \A b \in 1..Len(decoded) :
         \A c \in 1..Len(decoded[b].dataframe.columns) :
           LET col == decoded[b].dataframe.data[c]
               out == buildings[b].dataframe.data[c]
               rows == {r \in 1..Len(col) : ~IsNaN(col[r])}
               n == Cardinality(rows)
               S == SumOver([r \in rows |-> col[r].m], rows)
               Q == SumOver([r \in rows |-> (n * col[r].m - S) * (n * col[r].m - S)], rows)
           IN \A r \in 1..Len(col) :
                IF IsNaN(col[r]) \/ n < 2 \/ Q = 0 THEN IsNaN(out[r])
                ELSE LET d == n * col[r].m - S IN
                     /\ ~IsNaN(out[r])
                     /\ (out[r].sign = 1 /\ d > 0) \/ (out[r].sign = 0 /\ d = 0)
                          \/ (out[r].sign = -1 /\ d < 0)
                     /\ out[r].sq.den > 0
                     /\ out[r].sq.num * Q = out[r].sq.den * d * d * (n - 1)
    /\ payload = Example("kW", 2, 4, 6) =>
         buildings[1].dataframe.data[1] =
           <<[sign |-> -1, sq |-> [num |-> 1, den |-> 1]],
             [sign |-> 0, sq |-> [num |-> 0, den |-> 1]],
             [sign |-> 1, sq |-> [num |-> 1, den |-> 1]]>>

C8_Witness ==
  /\ MeanDone
  /\ payload = Example("kW", 2, 4, 6)
  /\ buildings[1].dataframe.data[1][1] = [sign |-> -1, sq |-> [num |-> 1, den |-> 1]]

\* C9 (as claimed): decode(encode(decode(X))) = decode(X): the same names,
\* sensor lists, columns, timestamps and cell values.
C9_RoundTripExact == pc = "redecoded" => redecoded = decoded

\* a cell read back: missing if it was missing, the same number if it had at
\* most DoublePrecision places, else a number of at most DoublePrecision places
\* within half a unit of the last place kept
ReadBack(x, y) ==
  IF IsNaN(x) THEN IsNaN(y)
  ELSE /\ ~IsNaN(y)
       /\ IF x.e <= DoublePrecision THEN y = x
          ELSE /\ y.e <= DoublePrecision
               /\ 2 * Abs(Scale(x, x.e) - Scale(y, x.e)) <= Pow10(x.e - DoublePrecision)

\* C9 (amended): decode(encode(decode(X))) has the building names, sensor
\* lists, columns and timestamps of decode(X), missing cells stay missing and
\* every value comes back rounded to 10 decimal places, so unchanged if it had
\* no more than 10.
C9_RoundTripRounded ==
  pc = "redecoded" =>
    /\ raised.exc = "none"
    /\ Len(redecoded) = Len(decoded)
    /\ \A b \in 1..Len(decoded) :
         /\ redecoded[b].name = decoded[b].name
         /\ redecoded[b].sensors = decoded[b].sensors
         /\ redecoded[b].dataframe.columns = decoded[b].dataframe.columns
         /\ redecoded[b].dataframe.index = decoded[b].dataframe.index
         /\ \A c \in 1..Len(decoded[b].dataframe.columns) :
              \A r \in 1..Len(decoded[b].dataframe.index) :
                ReadBack(decoded[b].dataframe.data[c][r], redecoded[b].dataframe.data[c][r])

C9_Witness ==
  /\ pc = "redecoded"
  /\ Len(decoded) = 1
  /\ NRows(decoded[1].dataframe) = 3
  /\ decoded[1].dataframe.data[1] = <<Dec(16, DoublePrecision + 1), NaN, Dec(15, 1)>>
  /\ redecoded[1].dataframe.data[1] = <<Dec(2, DoublePrecision), NaN, Dec(15, 1)>>

\* the request decoded its payload
Decoded == pc = "done" /\ raised.at \in {"none", "transform"}

Increasing(s) == \A i \in 1..(Len(s) - 1) : s[i] < s[i + 1]

Decreasing(s) == \A i \in 1..(Len(s) - 1) : s[i] > s[i + 1]

\* the reading before row r in time: the row of the greatest timestamp below
\* that of r, 0 if there is none
Preceding(index, r) ==
  IF \A q \in 1..Len(index) : index[q] >= index[r] THEN 0
  ELSE CHOOSE q \in 1..Len(index) :
         /\ index[q] < index[r]
         /\ \A p \in 1..Len(index) : index[p] < index[r] => index[p] <= index[q]

\* C10 (as claimed): whatever the order of the keys in the embedded JSON, the
\* row index of every decoded building is strictly monotonic, and differencing
\* subtracts from each reading the reading of the preceding timestamp.
C10_SortedIndex ==
  /\ Decoded =>
       \A b \in 1..Len(decoded) :
         Increasing(decoded[b].dataframe.index) \/ Decreasing(decoded[b].dataframe.index)
  /\ DiffDone =>
       \A b \in 1..Len(decoded) :
         \A i \in Qualifying(decoded[b].sensors) :
           LET C == decoded[b].sensors[i].type
               index == decoded[b].dataframe.index
               before == Column(decoded[b].dataframe, C)
               diff == Column(buildings[b].dataframe, C \o " Diff")
           IN \A r \in 1..Len(index) :
                IF Preceding(index, r) = 0 THEN IsNaN(diff[r])
                ELSE IsDifference(diff[r], before[r], before[Preceding(index, r)])

\* the entry of the payload a decoded building comes from
EntryOf(name) ==
  payload.items[CHOOSE i \in Live(payload) : payload.items[i].k = name].v

\* the places <<column, pair>> of the keys of a table text
KeyPlaces(df) ==
  IF df.t # "object" THEN {}
  ELSE UNION {{<<c, j>> : j \in 1..Len(df.items[c].v)} : c \in 1..Len(df.items)}

Before(p, q) == p[1] < q[1] \/ (p[1] = q[1] /\ p[2] < q[2])

\* the first place of the text df where the key of timestamp ts stands
FirstPlace(df, ts) ==
  CHOOSE p \in KeyPlaces(df) :
    /\ to_datetime(df.items[p[1]].v[p[2]].k) = ts
    /\ \A q \in KeyPlaces(df) :
         to_datetime(df.items[q[1]].v[q[2]].k) = ts => (q = p \/ Before(p, q))

\* C10 (amended): the row index holds the timestamps of the input's keys, each
\* once, in the order in which the keys first appear in the embedded JSON (it
\* is not sorted); differencing subtracts from each reading the reading of the
\* row before it, which is the preceding timestamp when the keys appear in
\* ascending order.
C10_TextOrderIndex ==
  /\ Decoded =>
       \A b \in 1..Len(decoded) :
         LET index == decoded[b].dataframe.index
             df == EntryOf(decoded[b].name).dataframe
         IN /\ {index[r] : r \in 1..Len(index)} =
                 {to_datetime(df.items[p[1]].v[p[2]].k) : p \in KeyPlaces(df)}
            /\ \A r, q \in 1..Len(index) :
                 r < q => /\ index[r] # index[q]
                          /\ Before(FirstPlace(df, index[r]), FirstPlace(df, index[q]))
  /\ DiffDone =>
       \A b \in 1..Len(decoded) :
         \A i \in Qualifying(decoded[b].sensors) :
           LET C == decoded[b].sensors[i].type
               index == decoded[b].dataframe.index
               before == Column(decoded[b].dataframe, C)
               diff == Column(buildings[b].dataframe, C \o " Diff")
           IN \A r \in 1..Len(index) :
                /\ r = 1 => IsNaN(diff[r])
                /\ r > 1 => IsDifference(diff[r], before[r], before[r - 1])
                /\ Increasing(index) => Preceding(index, r) = r - 1

C10_Witness ==
  /\ DiffDone
  /\ Len(decoded) = 1
  /\ decoded[1].dataframe.index = <<2700000, 900000, 1800000>>
  /\ Column(decoded[1].dataframe, "A") = <<Int0(9), Int0(1), Int0(4)>>
  /\ Column(buildings[1].dataframe, "A Diff") = <<NaN, Int0(-8), Int0(3)>>

\* a normalization has returned
NormDone == MinMaxDone \/ MeanDone

\* the function the request's route applies
Normalize(bs) ==
  IF endpoint = "/normalize/minmax" THEN min_max_normalization(bs)
  ELSE mean_normalization(bs)

\* a cell holds a normalized value: missing, or a quotient in [0, 1] after
\* min-max, or a signed root after mean normalization
Rescaled(cell) ==
  \/ IsNaN(cell)
  \/ /\ endpoint = "/normalize/minmax"
     /\ DOMAIN cell = {"num", "den"}
     /\ 0 <= cell.num /\ cell.num <= cell.den
  \/ /\ endpoint = "/normalize/mean"
     /\ DOMAIN cell = {"sign", "sq"}

\* the positions of the sensors of a building that name column c
SensorsFor(building, c) ==
  {i \in 1..Len(building.sensors) : building.sensors[i].type = building.dataframe.columns[c]}

\* C11: min_max_normalization and mean_normalization rescale every column of
\* every building's table, whatever the unit of its sensor (and with no sensor
\* at all), and change nothing else: the collection has the same buildings,
\* each with the same name, sensor list, column names and row index as before,
\* a cell is missing after the call exactly if the column cannot be scaled or
\* the cell was missing, and a building's result is the result of normalizing
\* that building alone (no statistics across buildings).
C11_NormalizationFrame ==
  NormDone =>
    /\ Len(buildings) = Len(decoded)
    /\ \A b \in 1..Len(decoded) :
         LET before == decoded[b]
             after == buildings[b]
         IN /\ after.name = before.name
            /\ after.sensors = before.sensors
            /\ {after.dataframe.columns[c] : c \in 1..Len(after.dataframe.columns)} =
                 {before.dataframe.columns[c] : c \in 1..Len(before.dataframe.columns)}
            /\ Len(after.dataframe.columns) = Len(before.dataframe.columns)
            /\ after.dataframe.index = before.dataframe.index
            /\ Len(after.dataframe.data) = Len(before.dataframe.data)
            /\ \A c \in 1..Len(before.dataframe.columns) :
                 /\ Len(after.dataframe.data[c]) = Len(before.dataframe.data[c])
                 /\ \A r \in 1..Len(before.dataframe.data[c]) :
                      /\ Rescaled(after.dataframe.data[c][r])
                      /\ IsNaN(before.dataframe.data[c][r]) => IsNaN(after.dataframe.data[c][r])
                      /\ (Cardinality(Values(before.dataframe.data[c])) >= 2
                            /\ ~IsNaN(before.dataframe.data[c][r]))
                           => ~IsNaN(after.dataframe.data[c][r])
            /\ after = Normalize(<<before>>).val[1]

\* two buildings of different ranges were normalized, one of them with a
\* column of a sensor that measures no consumption unit
C11_Witness ==
  /\ NormDone
  /\ Len(decoded) = 2
  /\ \A b \in 1..2 : Len(decoded[b].dataframe.columns) >= 1
  /\ Values(decoded[1].dataframe.data[1]) # Values(decoded[2].dataframe.data[1])
  /\ \E b \in 1..2 : \E c \in 1..Len(decoded[b].dataframe.columns) :
       /\ SensorsFor(decoded[b], c) # {}
       /\ \A i \in SensorsFor(decoded[b], c) : ~Qualifies(decoded[b].sensors[i])
       /\ Cardinality(Values(decoded[b].dataframe.data[c])) >= 2
       /\ \E r \in 1..Len(buildings[b].dataframe.data[c]) :
            ~IsNaN(buildings[b].dataframe.data[c][r])

====
